---- MODULE Spec2Model ----
(***************************************************************************)
(* Task repository of todo-it (internal/repositories, internal/entities,   *)
(* internal/enums): the tasks collection, the operations of               *)
(* TodoRepository on it, and the MongoDB query semantics they rely on.     *)
(*                                                                         *)
(* Times are milliseconds (the resolution of a BSON datetime); a time.Time *)
(* value with a sub-millisecond part is its milliseconds plus SubMs.       *)
(* Strings that are searched are sequences of one-character strings.       *)
(***************************************************************************)
EXTENDS Integers, Sequences, FiniteSets, TLC

\* ------------------------------------------------------------------ bounds
MaxId == 2          \* ObjectIDs handed out by NewObjectID: 1..MaxId
MaxClock == 2       \* the clock runs from 1 to MaxClock
MaxPage == 2        \* page arguments 0..MaxPage
MaxLimit == 2       \* limit arguments 0..MaxLimit
MaxDocs == 3        \* documents of a populated collection (query specification)
MaxCalls == 2       \* concurrent calls (concurrent specification)

\* --------------------------------------------------------------- constants
NilID == 0          \* primitive.NilObjectID
NoTime == 0 - 1     \* a nil *time.Time / an absent or null datetime field
ZeroTime == 0       \* the zero time.Time
SubMs == 100        \* t + SubMs: t milliseconds and a fraction of a millisecond

Owners == {"u1", "u2"}

StatusPending == "pending"
StatusInProgress == "in_progress"
StatusCompleted == "completed"
StatusCancelled == "cancelled"

GetAllStatuses == {StatusPending, StatusInProgress, StatusCompleted, StatusCancelled}

PriorityLow == "low"
PriorityMedium == "medium"
PriorityHigh == "high"
PriorityUrgent == "urgent"

GetAllPriorities == {PriorityLow, PriorityMedium, PriorityHigh, PriorityUrgent}

\* TaskPriority.IsValid (no repository operation calls it)
IsValid(p) == p \in GetAllPriorities

\* ------------------------------------------------------------------- state
VARIABLES
    store,     \* the tasks collection: a function from _id to document
    clock,     \* time.Now(), in milliseconds
    nextId,    \* the next ObjectID primitive.NewObjectID() returns
    ret,       \* the last call: its arguments and what it returned
    calls,     \* the concurrent calls, by number: arguments, clock readings
               \* and result ("running" until the storage operation is done)
    db         \* the shared database.MongoDB handle: closed, mu (locked or
               \* not) and disconnects, the Disconnect calls of its client
               \* that succeeded

vars == <<store, clock, nextId, ret, calls, db>>

\* the handle NewMongoClient returns: connected, closed false, mu unlocked
OpenDB == [closed |-> FALSE, mu |-> FALSE, disconnects |-> 0]

Min(a, b) == IF a <= b THEN a ELSE b

\* entities.Task with zero values
ZeroTask ==
    [id |-> NilID, user_id |-> "", title |-> <<>>, description |-> <<>>,
     status |-> "", priority |-> "", due_date |-> NoTime, tags |-> <<>>,
     is_archived |-> FALSE, created_at |-> ZeroTime, updated_at |-> ZeroTime,
     completed_at |-> NoTime]

ZeroStats ==
    [Total |-> 0, Pending |-> 0, InProgress |-> 0, Completed |-> 0,
     Cancelled |-> 0, Archived |-> 0, Overdue |-> 0]

NoFilters ==
    [Status |-> "", Priority |-> "", Tags |-> <<>>,
     IsArchived |-> "nil",      \* a *bool: "nil", "true" or "false"
     DueBefore |-> NoTime, DueAfter |-> NoTime, Search |-> <<>>]

NoRet ==
    [op |-> "none", caller |-> "", err |-> "none", id |-> NilID, ids |-> <<>>,
     status |-> "", todo |-> ZeroTask, owner |-> "", page |-> 0, limit |-> 0,
     filters |-> NoFilters, tasks |-> <<>>, total |-> 0, count |-> 0,
     now |-> 0, now2 |-> 0, stats |-> ZeroStats, fail |-> "none"]

\* ------------------------------------------------- MongoDB query semantics
\* A bson.M is a function from keys to values.  A field condition is a
\* function from operator names to arguments; a plain value v stands for
\* ("$eq" :> v).  The value under "$or" is a sequence of sub-filters.
EmptyM == << >>

Put(m, k, v) == [x \in DOMAIN m \cup {k} |-> IF x = k THEN v ELSE m[x]]

Eq(v) == "$eq" :> v

Elems(s) == {s[i] : i \in DOMAIN s}

Lower(c) == CASE c = "A" -> "a" [] c = "B" -> "b" [] OTHER -> c

\* an unanchored regular expression of plain characters and ".", which
\* matches any character: a substring test when the pattern has no "."
RegexMatch(text, pat, options) ==
    \E i \in 0..(Len(text) - Len(pat)) :
        \A j \in 1..Len(pat) :
            \/ pat[j] = "."
            \/ IF options = "i" THEN Lower(text[i + j]) = Lower(pat[j])
               ELSE text[i + j] = pat[j]

Field(doc, k) == IF k = "_id" THEN doc.id ELSE doc[k]

\* Fields written with omitempty are absent when empty; a nil pointer set by
\* $set is stored as null.  Neither matches a comparison, $in or $regex.
OpHolds(k, v, cond, op) ==
    CASE op = "$eq" -> v = cond[op]
      [] op = "$ne" -> v # cond[op]
      [] op = "$in" -> IF k = "tags"
                       THEN \E i \in DOMAIN v : v[i] \in Elems(cond[op])
                       ELSE v \in Elems(cond[op])
      [] op = "$lt" -> v # NoTime /\ v < cond[op]
      [] op = "$lte" -> v # NoTime /\ v <= cond[op]
      [] op = "$gte" -> v # NoTime /\ v >= cond[op]
      [] op = "$regex" -> RegexMatch(v, cond[op], cond["$options"])
      [] op = "$options" -> TRUE

MatchCond(k, v, cond) == \A op \in DOMAIN cond : OpHolds(k, v, cond, op)

MatchesFlat(doc, filter) ==
    \A k \in DOMAIN filter : MatchCond(k, Field(doc, k), filter[k])

\* all top-level keys of a filter are combined with AND, "$or" included
Matches(doc, filter) ==
    \A k \in DOMAIN filter :
        IF k = "$or"
        THEN \E i \in DOMAIN filter[k] : MatchesFlat(doc, filter[k][i])
        ELSE MatchCond(k, Field(doc, k), filter[k])

Docs(coll) == {coll[i] : i \in DOMAIN coll}

\* collection.CountDocuments / the documents collection.Find selects
Matching(coll, filter) == {d \in Docs(coll) : Matches(d, filter)}

CountDocuments(coll, filter) == Cardinality(Matching(coll, filter))

\* The orders a sort on created_at descending can return a set of documents
\* in: documents with equal created_at come in any order.
RECURSIVE SortedByCreatedDesc(_)
SortedByCreatedDesc(S) ==
    IF S = {} THEN {<< >>}
    ELSE UNION {{<<d>> \o s : s \in SortedByCreatedDesc(S \ {d})} :
                    d \in {x \in S : \A y \in S : x.created_at >= y.created_at}}

\* The orders a sort on due_date ascending can return a set of documents in
\* (an absent or null due_date sorts before every date, as NoTime does).
RECURSIVE SortedByDueAsc(_)
SortedByDueAsc(S) ==
    IF S = {} THEN {<< >>}
    ELSE UNION {{<<d>> \o s : s \in SortedByDueAsc(S \ {d})} :
                    d \in {x \in S : \A y \in S : x.due_date <= y.due_date}}

\* cursor contents after skip and limit; limit 0 means no limit
SkipLimit(s, skip, limit) ==
    IF skip >= Len(s) THEN << >>
    ELSE SubSeq(s, skip + 1, IF limit = 0 THEN Len(s) ELSE Min(Len(s), skip + limit))

\* a time.Time as a BSON datetime: the milliseconds are kept, the rest is cut
Millis(t) == IF t >= SubMs THEN t - SubMs ELSE t

\* variant: the description is not written
EncodeDocNoDescription(doc) ==
    [doc EXCEPT !.due_date = Millis(@), !.completed_at = Millis(@),
                !.created_at = Millis(@), !.updated_at = Millis(@),
                !.description = << >>]

\* a task value as the document the driver writes: the bson tags of
\* entities.Task, datetimes for the time values
EncodeDoc(doc) ==
    [doc EXCEPT !.due_date = Millis(@), !.completed_at = Millis(@),
                !.created_at = Millis(@), !.updated_at = Millis(@)]

\* variant: $unset is not applied with the $set of the same update
ApplyUpdateSetOnly(doc, update) ==
    EncodeDoc([f \in DOMAIN doc |->
        IF f \in DOMAIN update["$set"] THEN update["$set"][f]
        ELSE doc[f]])

\* $set assigns the listed fields, $unset removes them (an absent
\* completed_at reads back as a nil pointer); the update of one document is
\* atomic
ApplyUpdate(doc, update) ==
    EncodeDoc([f \in DOMAIN doc |->
        IF f \in DOMAIN update["$set"] THEN update["$set"][f]
        ELSE IF "$unset" \in DOMAIN update /\ f \in DOMAIN update["$unset"] THEN NoTime
        ELSE doc[f]])

\* collection.UpdateMany: every matching document is updated; MatchedCount
\* counts the matching documents, ModifiedCount those the update changed
UpdateMany(coll, filter, update) ==
    LET hit == {i \in DOMAIN coll : Matches(coll[i], filter)}
        after == [i \in DOMAIN coll |->
                    IF i \in hit THEN ApplyUpdate(coll[i], update) ELSE coll[i]]
    IN  [coll |-> after,
         MatchedCount |-> Cardinality(hit),
         ModifiedCount |-> Cardinality({i \in hit : after[i] # coll[i]})]

\* variant: an update that matches nothing inserts the document (upsert)
UpdateOneUpsert(coll, filter, update) ==
    LET hit == {i \in DOMAIN coll : Matches(coll[i], filter)}
        id == filter["_id"]["$eq"]
    IN  IF hit = {}
        THEN [coll |-> [j \in DOMAIN coll \cup {id} |->
                            IF j = id THEN ApplyUpdate([ZeroTask EXCEPT !.id = id], update)
                            ELSE coll[j]],
              MatchedCount |-> 0, ModifiedCount |-> 0]
        ELSE LET i == CHOOSE x \in hit : TRUE
                 doc == ApplyUpdate(coll[i], update)
             IN  [coll |-> [coll EXCEPT ![i] = doc],
                  MatchedCount |-> 1,
                  ModifiedCount |-> IF doc # coll[i] THEN 1 ELSE 0]

\* collection.UpdateOne: at most one matching document is updated
UpdateOne(coll, filter, update) ==
    LET hit == {i \in DOMAIN coll : Matches(coll[i], filter)}
    IN  IF hit = {} THEN [coll |-> coll, MatchedCount |-> 0, ModifiedCount |-> 0]
        ELSE LET i == CHOOSE x \in hit : TRUE
                 doc == ApplyUpdate(coll[i], update)
             IN  [coll |-> [coll EXCEPT ![i] = doc],
                  MatchedCount |-> 1,
                  ModifiedCount |-> IF doc # coll[i] THEN 1 ELSE 0]

\* collection.DeleteMany
DeleteMany(coll, filter) ==
    LET hit == {i \in DOMAIN coll : Matches(coll[i], filter)}
    IN  [coll |-> [i \in DOMAIN coll \ hit |-> coll[i]],
         DeletedCount |-> Cardinality(hit)]

\* collection.DeleteOne
DeleteOne(coll, filter) ==
    LET hit == {i \in DOMAIN coll : Matches(coll[i], filter)}
    IN  IF hit = {} THEN [coll |-> coll, DeletedCount |-> 0]
        ELSE LET i == CHOOSE x \in hit : TRUE
             IN  [coll |-> [j \in DOMAIN coll \ {i} |-> coll[j]], DeletedCount |-> 1]

\* collection.InsertOne: a zero ID is left out of the document (omitempty)
\* and the driver puts the new ObjectID oid in its place; _id is unique
InsertOne(coll, doc, oid) ==
    LET d == EncodeDoc(IF doc.id = NilID THEN [doc EXCEPT !.id = oid] ELSE doc)
    IN  IF d.id \in DOMAIN coll
        THEN [coll |-> coll, err |-> "storage", InsertedID |-> NilID]
        ELSE [coll |-> [i \in DOMAIN coll \cup {d.id} |->
                            IF i = d.id THEN d ELSE coll[i]],
              err |-> "none", InsertedID |-> d.id]

\* the pipeline $match, $group by "$status" with a $sum of 1: one result per
\* status value present, as a function from the status to its count
Aggregate(coll, match) ==
    LET S == Matching(coll, match)
    IN  [st \in {d.status : d \in S} |-> Cardinality({d \in S : d.status = st})]

\* ---------------------------------------------------------- entities.Task
PrepareForCreate(t, userID, now, oid) ==
    [t EXCEPT !.id = oid, !.user_id = userID, !.created_at = now,
              !.updated_at = now, !.is_archived = FALSE,
              !.status = IF t.status = "" THEN StatusPending ELSE t.status,
              !.priority = IF t.priority = "" THEN PriorityMedium ELSE t.priority]

PrepareForUpdate(t, now) == [t EXCEPT !.updated_at = now]

\* Task.IsOverdue at a reading now of time.Now()
IsOverdue(t, now) ==
    IF t.due_date = NoTime \/ t.status = StatusCompleted THEN FALSE
    ELSE t.due_date < now

MarkAsCompleted(t, now) ==
    [t EXCEPT !.status = StatusCompleted, !.completed_at = now, !.updated_at = now]

MarkAsPending(t, now) ==
    [t EXCEPT !.status = StatusPending, !.completed_at = NoTime, !.updated_at = now]

\* ------------------------------------------------------- todoRepository
\* Every operation below takes fail: the storage access that fails during
\* the call ("none" when the store answers every access).

BaseFilter(userID) == "user_id" :> Eq(userID)

IdFilter(id) == "_id" :> Eq(id)

IdsFilter(ids) == "_id" :> ("$in" :> ids)

\* variant: the search has to match the title and the description
applyFiltersSearchAnd(filter, filters) ==
    LET f1 == IF filters.Status # "" THEN Put(filter, "status", Eq(filters.Status))
              ELSE filter
        f2 == IF filters.Priority # "" THEN Put(f1, "priority", Eq(filters.Priority))
              ELSE f1
        f3 == IF Len(filters.Tags) > 0 THEN Put(f2, "tags", "$in" :> filters.Tags)
              ELSE f2
        f4 == IF filters.IsArchived # "nil"
              THEN Put(f3, "is_archived", Eq(filters.IsArchived = "true"))
              ELSE f3
        f5 == IF filters.DueBefore # NoTime
              THEN Put(f4, "due_date",
                       Put(IF "due_date" \in DOMAIN f4 THEN f4["due_date"] ELSE EmptyM,
                           "$lte", filters.DueBefore))
              ELSE f4
        f6 == IF filters.DueAfter # NoTime
              THEN Put(f5, "due_date",
                       Put(IF "due_date" \in DOMAIN f5 THEN f5["due_date"] ELSE EmptyM,
                           "$gte", filters.DueAfter))
              ELSE f5
    IN  IF Len(filters.Search) > 0
        THEN Put(Put(f6, "title", ("$regex" :> filters.Search) @@ ("$options" :> "i")),
                 "description", ("$regex" :> filters.Search) @@ ("$options" :> "i"))
        ELSE f6

applyFilters(filter, filters) ==
    LET f1 == IF filters.Status # "" THEN Put(filter, "status", Eq(filters.Status))
              ELSE filter
        f2 == IF filters.Priority # "" THEN Put(f1, "priority", Eq(filters.Priority))
              ELSE f1
        f3 == IF Len(filters.Tags) > 0 THEN Put(f2, "tags", "$in" :> filters.Tags)
              ELSE f2
        f4 == IF filters.IsArchived # "nil"
              THEN Put(f3, "is_archived", Eq(filters.IsArchived = "true"))
              ELSE f3
        f5 == IF filters.DueBefore # NoTime
              THEN Put(f4, "due_date",
                       Put(IF "due_date" \in DOMAIN f4 THEN f4["due_date"] ELSE EmptyM,
                           "$lte", filters.DueBefore))
              ELSE f4
        f6 == IF filters.DueAfter # NoTime
              THEN Put(f5, "due_date",
                       Put(IF "due_date" \in DOMAIN f5 THEN f5["due_date"] ELSE EmptyM,
                           "$gte", filters.DueAfter))
              ELSE f5
    IN  IF Len(filters.Search) > 0
        THEN Put(f6, "$or",
                 << "title" :> (("$regex" :> filters.Search) @@ ("$options" :> "i")),
                    "description" :> (("$regex" :> filters.Search) @@ ("$options" :> "i")) >>)
        ELSE f6

\* variant: the base filter on user_id is left out
ListFilterUnscoped(userID, filters) == applyFilters(EmptyM, filters)

\* the filter GetByUserID queries with (a nil *TaskFilters applies nothing,
\* as NoFilters does)
ListFilter(userID, filters) == applyFilters(BaseFilter(userID), filters)

\* variant: pages counted from 0
SkipFromPage(page, limit) == page * limit

\* skip := (page - 1) * limit
Skip(page, limit) == (page - 1) * limit

\* variant: the total is the length of the page
GetByUserIDPageTotal(coll, userID, page, limit, filters, fail) ==
    LET filter == applyFilters(BaseFilter(userID), filters)
        skip == (page - 1) * limit
        failed == [tasks |-> << >>, total |-> 0, err |-> "storage"]
    IN  IF fail = "count" THEN {failed}
        ELSE IF fail = "find" \/ skip < 0 THEN {failed}
        ELSE {[tasks |-> SkipLimit(s, skip, limit),
               total |-> Len(SkipLimit(s, skip, limit)), err |-> "none"] :
                 s \in SortedByCreatedDesc(Matching(coll, filter))}

\* The outcomes of GetByUserID: [tasks, total, err].  The find fails on a
\* negative skip; a failing cursor.Next ends the loop like the end of the
\* results does.
GetByUserID(coll, userID, page, limit, filters, fail) ==
    LET filter == ListFilter(userID, filters)
        total == CountDocuments(coll, filter)
        skip == Skip(page, limit)
        failed == [tasks |-> << >>, total |-> 0, err |-> "storage"]
    IN  IF fail = "count" THEN {failed}
        ELSE IF fail = "find" \/ skip < 0 THEN {failed}
        ELSE {IF fail = "decode" /\ Len(cur) > 0 THEN failed
              ELSE [tasks |-> cur, total |-> total, err |-> "none"] :
                 cur \in UNION {
                    LET all == SkipLimit(s, skip, limit)
                    IN  IF fail = "next" /\ Len(all) > 0
                        THEN {SubSeq(all, 1, n) : n \in 0..(Len(all) - 1)}
                        ELSE {all} :
                    s \in SortedByCreatedDesc(Matching(coll, filter))}}

\* GetByID: [task, err]
GetByID(coll, id, fail) ==
    LET found == Matching(coll, IdFilter(id))
    IN  IF fail # "none" THEN [task |-> ZeroTask, err |-> "storage"]
        ELSE IF found = {} THEN [task |-> ZeroTask, err |-> "not_found"]
        ELSE [task |-> CHOOSE d \in found : TRUE, err |-> "none"]

\* Create: [coll, err, todo]; oid is the ObjectID the driver generates for a
\* task without one, todo the caller's task after the call
Create(coll, todo, oid, fail) ==
    LET r == InsertOne(coll, todo, oid)
    IN  IF fail # "none" \/ r.err # "none"
        THEN [coll |-> coll, err |-> "storage", todo |-> todo]
        ELSE [coll |-> r.coll, err |-> "none", todo |-> [todo EXCEPT !.id = r.InsertedID]]

\* variant: the owner is written too
UpdateDocWithOwner(todo) ==
    "$set" :> [user_id |-> todo.user_id,
               title |-> todo.title, description |-> todo.description,
               status |-> todo.status, priority |-> todo.priority,
               due_date |-> todo.due_date, tags |-> todo.tags,
               is_archived |-> todo.is_archived, updated_at |-> todo.updated_at,
               completed_at |-> todo.completed_at]

\* variant: completed_at is not written
UpdateDocNoCompletedAt(todo) ==
    "$set" :> [title |-> todo.title, description |-> todo.description,
               status |-> todo.status, priority |-> todo.priority,
               due_date |-> todo.due_date, tags |-> todo.tags,
               is_archived |-> todo.is_archived, updated_at |-> todo.updated_at]

UpdateDoc(todo) ==
    "$set" :> [title |-> todo.title, description |-> todo.description,
               status |-> todo.status, priority |-> todo.priority,
               due_date |-> todo.due_date, tags |-> todo.tags,
               is_archived |-> todo.is_archived, updated_at |-> todo.updated_at,
               completed_at |-> todo.completed_at]

\* Update: [coll, err, todo]; now is the clock PrepareForUpdate reads
Update(coll, todo0, now, fail) ==
    LET todo == PrepareForUpdate(todo0, now)
        r == UpdateOne(coll, IdFilter(todo.id), UpdateDoc(todo))
    IN  IF fail # "none" THEN [coll |-> coll, err |-> "storage", todo |-> todo]
        ELSE IF r.MatchedCount = 0 THEN [coll |-> r.coll, err |-> "not_found", todo |-> todo]
        ELSE [coll |-> r.coll, err |-> "none", todo |-> todo]

\* variant: the deleted count is not looked at
DeleteSilent(coll, id, fail) ==
    IF fail # "none" THEN [coll |-> coll, err |-> "storage"]
    ELSE [coll |-> DeleteOne(coll, IdFilter(id)).coll, err |-> "none"]

\* Delete: [coll, err]
Delete(coll, id, fail) ==
    LET r == DeleteOne(coll, IdFilter(id))
    IN  IF fail # "none" THEN [coll |-> coll, err |-> "storage"]
        ELSE IF r.DeletedCount = 0 THEN [coll |-> r.coll, err |-> "not_found"]
        ELSE [coll |-> r.coll, err |-> "none"]

\* variant: completed_at is never unset
StatusUpdateDocNoUnset(status, now, now2) ==
    IF status = StatusCompleted
    THEN "$set" :> [status |-> status, updated_at |-> now, completed_at |-> now2]
    ELSE "$set" :> [status |-> status, updated_at |-> now]

\* the update document of UpdateStatus and BulkUpdateStatus: now and now2 are
\* the two readings of time.Now()
StatusUpdateDoc(status, now, now2) ==
    IF status = StatusCompleted
    THEN "$set" :> [status |-> status, updated_at |-> now, completed_at |-> now2]
    ELSE ("$set" :> [status |-> status, updated_at |-> now])
         @@ ("$unset" :> [completed_at |-> ""])

\* UpdateStatus: [coll, err]
UpdateStatus(coll, id, status, now, now2, fail) ==
    LET r == UpdateOne(coll, IdFilter(id), StatusUpdateDoc(status, now, now2))
    IN  IF fail # "none" THEN [coll |-> coll, err |-> "storage"]
        ELSE IF r.MatchedCount = 0 THEN [coll |-> r.coll, err |-> "not_found"]
        ELSE [coll |-> r.coll, err |-> "none"]

\* variant: the matched count is returned
BulkUpdateStatusMatched(coll, ids, status, now, now2, fail) ==
    LET r == UpdateMany(coll, IdsFilter(ids),
                        IF status = StatusCompleted
                        THEN "$set" :> [status |-> status, updated_at |-> now,
                                        completed_at |-> now2]
                        ELSE ("$set" :> [status |-> status, updated_at |-> now])
                             @@ ("$unset" :> [completed_at |-> ""]))
    IN  IF fail # "none" THEN [coll |-> coll, count |-> 0, err |-> "storage"]
        ELSE [coll |-> r.coll, count |-> r.MatchedCount, err |-> "none"]

\* BulkUpdateStatus: [coll, count, err]
BulkUpdateStatus(coll, ids, status, now, now2, fail) ==
    LET r == UpdateMany(coll, IdsFilter(ids), StatusUpdateDoc(status, now, now2))
    IN  IF fail # "none" THEN [coll |-> coll, count |-> 0, err |-> "storage"]
        ELSE [coll |-> r.coll, count |-> r.ModifiedCount, err |-> "none"]

\* BulkDelete: [coll, count, err]
BulkDelete(coll, ids, fail) ==
    LET r == DeleteMany(coll, IdsFilter(ids))
    IN  IF fail # "none" THEN [coll |-> coll, count |-> 0, err |-> "storage"]
        ELSE [coll |-> r.coll, count |-> r.DeletedCount, err |-> "none"]

RECURSIVE SumCounts(_, _)
SumCounts(counts, keys) ==
    IF keys = {} THEN 0
    ELSE LET k == CHOOSE x \in keys : TRUE
         IN  counts[k] + SumCounts(counts, keys \ {k})

\* statusCounts[key] of a Go map: 0 when the key is missing
CountOf(counts, key) == IF key \in DOMAIN counts THEN counts[key] ELSE 0

\* variant: the overdue count leaves the archived tasks out
GetStatsByUserOverdueNotArchived(coll, userID, now, fail) ==
    LET statusCounts == Aggregate(coll, BaseFilter(userID))
        archivedCount == CountDocuments(coll,
            ("user_id" :> Eq(userID)) @@ ("is_archived" :> Eq(TRUE)))
        overdueCount == CountDocuments(coll,
            ("user_id" :> Eq(userID)) @@ ("due_date" :> ("$lt" :> now))
                @@ ("status" :> ("$ne" :> StatusCompleted))
                @@ ("is_archived" :> Eq(FALSE)))
    IN  IF fail # "none" THEN [stats |-> ZeroStats, err |-> "storage"]
        ELSE [stats |-> [Total |-> SumCounts(statusCounts, DOMAIN statusCounts),
                         Pending |-> CountOf(statusCounts, StatusPending),
                         InProgress |-> CountOf(statusCounts, StatusInProgress),
                         Completed |-> CountOf(statusCounts, StatusCompleted),
                         Cancelled |-> CountOf(statusCounts, StatusCancelled),
                         Archived |-> archivedCount,
                         Overdue |-> overdueCount],
              err |-> "none"]

\* GetStatsByUser: [stats, err]
GetStatsByUser(coll, userID, now, fail) ==
    LET statusCounts == Aggregate(coll, BaseFilter(userID))
        archivedCount == CountDocuments(coll,
            ("user_id" :> Eq(userID)) @@ ("is_archived" :> Eq(TRUE)))
        overdueCount == CountDocuments(coll,
            ("user_id" :> Eq(userID)) @@ ("due_date" :> ("$lt" :> now))
                @@ ("status" :> ("$ne" :> StatusCompleted)))
    IN  IF fail # "none" THEN [stats |-> ZeroStats, err |-> "storage"]
        ELSE [stats |-> [Total |-> SumCounts(statusCounts, DOMAIN statusCounts),
                         Pending |-> CountOf(statusCounts, StatusPending),
                         InProgress |-> CountOf(statusCounts, StatusInProgress),
                         Completed |-> CountOf(statusCounts, StatusCompleted),
                         Cancelled |-> CountOf(statusCounts, StatusCancelled),
                         Archived |-> archivedCount,
                         Overdue |-> overdueCount],
              err |-> "none"]

\* variant: archived tasks are listed too
OverdueFilterWithArchived(userID, now) ==
    ("user_id" :> Eq(userID)) @@ ("due_date" :> ("$lt" :> now))
        @@ ("status" :> ("$ne" :> StatusCompleted))

\* the filter of GetOverdueTodos; now is its reading of time.Now()
OverdueFilter(userID, now) ==
    ("user_id" :> Eq(userID)) @@ ("due_date" :> ("$lt" :> now))
        @@ ("status" :> ("$ne" :> StatusCompleted))
        @@ ("is_archived" :> Eq(FALSE))

\* The outcomes of GetOverdueTodos: [tasks, err].  A failing cursor.Next
\* ends the loop like the end of the results does.
GetOverdueTodos(coll, userID, now, fail) ==
    LET failed == [tasks |-> << >>, err |-> "storage"]
    IN  IF fail = "find" THEN {failed}
        ELSE {IF fail = "decode" /\ Len(cur) > 0 THEN failed
              ELSE [tasks |-> cur, err |-> "none"] :
                 cur \in UNION {
                    IF fail = "next" /\ Len(s) > 0
                    THEN {SubSeq(s, 1, n) : n \in 0..(Len(s) - 1)}
                    ELSE {s} :
                    s \in SortedByDueAsc(Matching(coll, OverdueFilter(userID, now)))}}

\* ------------------------------------------------------------------ inputs
\* title, description, priority, due date, tags and archival of a task value
ContentA ==
    [title |-> <<"a", "b">>, description |-> << >>, priority |-> "",
     due_date |-> NoTime, tags |-> << >>, is_archived |-> FALSE]

ContentB ==
    [title |-> <<"B">>, description |-> <<"a">>, priority |-> PriorityHigh,
     due_date |-> 1, tags |-> <<"x", "y">>, is_archived |-> TRUE]

\* a task value as the request layer builds it: no id, owner or timestamps
NewTask(c, status, completedAt) ==
    [ZeroTask EXCEPT !.title = c.title, !.description = c.description,
                     !.priority = c.priority, !.due_date = c.due_date,
                     !.tags = c.tags, !.is_archived = c.is_archived,
                     !.status = status, !.completed_at = completedAt]

IdInputs == 1..MaxId

\* the readings of time.Now() a call can make after a first reading of now
Later(now) == {t \in {now, now + 1} : t <= MaxClock}

\* ----------------------------------------------------------------- actions
\* Each action is a call of the repository method of its name, with the
\* arguments drawn from the sets it is given.  caller is the authenticated
\* owner the request is made for (the request layer knows it; of the
\* repository methods only Create and Update, through the task's UserID,
\* GetByUserID and GetStatsByUser receive an owner).  An action has the call
\* in which the store answers and the call in which the storage access fails.

Failed(op) == [NoRet EXCEPT !.op = op, !.err = "storage", !.fail = "storage"]

Tick ==
    /\ clock < MaxClock
    /\ clock' = clock + 1
    /\ UNCHANGED <<store, nextId, ret, calls, db>>

\* Create of a task for owner u.  Create does not call PrepareForCreate: the
\* caller has called it (prepared), and it drew the new ObjectID, or has only
\* put the owner in the task, and the driver draws the new ObjectID.
CreateAct(tasks, prepared) ==
    \/ \E u \in Owners, t \in tasks, p \in prepared :
        /\ nextId <= MaxId
        /\ LET todo == IF p THEN PrepareForCreate(t, u, clock, nextId)
                       ELSE [t EXCEPT !.user_id = u]
               r == Create(store, todo, nextId, "none")
           IN  /\ store' = r.coll
               /\ ret' = [NoRet EXCEPT !.op = "Create", !.caller = u, !.err = r.err,
                                       !.id = r.todo.id, !.todo = r.todo,
                                       !.status = t.status, !.now = clock]
        /\ nextId' = nextId + 1
        /\ UNCHANGED <<clock, calls, db>>
    \/ /\ ret' = Failed("Create")
       /\ store' = Create(store, ZeroTask, nextId, "storage").coll
       /\ UNCHANGED <<clock, nextId, calls, db>>

GetByIDAct(callers, ids) ==
    \/ \E u \in callers, id \in ids :
        /\ LET r == GetByID(store, id, "none")
           IN  ret' = [NoRet EXCEPT !.op = "GetByID", !.caller = u, !.err = r.err,
                                    !.id = id, !.todo = r.task]
        /\ UNCHANGED <<store, clock, nextId, calls, db>>
    \/ /\ ret' = [Failed("GetByID") EXCEPT !.todo = GetByID(store, NilID, "storage").task]
       /\ UNCHANGED <<store, clock, nextId, calls, db>>

UpdateAct(callers, ids, tasks) ==
    \/ \E u \in callers, id \in ids, t \in tasks :
        /\ LET todo == [t EXCEPT !.id = id, !.user_id = u]
               r == Update(store, todo, clock, "none")
           IN  /\ store' = r.coll
               /\ ret' = [NoRet EXCEPT !.op = "Update", !.caller = u, !.err = r.err,
                                       !.id = id, !.todo = r.todo, !.now = clock]
        /\ UNCHANGED <<clock, nextId, calls, db>>
    \/ /\ ret' = Failed("Update")
       /\ store' = Update(store, ZeroTask, clock, "storage").coll
       /\ UNCHANGED <<clock, nextId, calls, db>>

DeleteAct(callers, ids) ==
    \/ \E u \in callers, id \in ids :
        /\ LET r == Delete(store, id, "none")
           IN  /\ store' = r.coll
               /\ ret' = [NoRet EXCEPT !.op = "Delete", !.caller = u, !.err = r.err,
                                       !.id = id]
        /\ UNCHANGED <<clock, nextId, calls, db>>
    \/ /\ ret' = Failed("Delete")
       /\ store' = Delete(store, NilID, "storage").coll
       /\ UNCHANGED <<clock, nextId, calls, db>>

UpdateStatusAct(callers, ids, statuses) ==
    \/ \E u \in callers, id \in ids, st \in statuses, now2 \in Later(clock) :
        /\ LET r == UpdateStatus(store, id, st, clock, now2, "none")
           IN  /\ store' = r.coll
               /\ ret' = [NoRet EXCEPT !.op = "UpdateStatus", !.caller = u,
                                       !.err = r.err, !.id = id, !.status = st,
                                       !.now = clock, !.now2 = now2]
        /\ clock' = now2
        /\ UNCHANGED <<nextId, calls, db>>
    \/ /\ ret' = Failed("UpdateStatus")
       /\ store' = UpdateStatus(store, NilID, "", clock, clock, "storage").coll
       /\ UNCHANGED <<clock, nextId, calls, db>>

BulkUpdateStatusAct(callers, idLists, statuses) ==
    \/ \E u \in callers, ids \in idLists, st \in statuses, now2 \in Later(clock) :
        /\ LET r == BulkUpdateStatus(store, ids, st, clock, now2, "none")
           IN  /\ store' = r.coll
               /\ ret' = [NoRet EXCEPT !.op = "BulkUpdateStatus", !.caller = u,
                                       !.err = r.err, !.ids = ids, !.status = st,
                                       !.count = r.count, !.now = clock,
                                       !.now2 = now2]
        /\ clock' = now2
        /\ UNCHANGED <<nextId, calls, db>>
    \/ /\ LET r == BulkUpdateStatus(store, << >>, "", clock, clock, "storage")
          IN  /\ store' = r.coll
              /\ ret' = [Failed("BulkUpdateStatus") EXCEPT !.count = r.count]
       /\ UNCHANGED <<clock, nextId, calls, db>>

BulkDeleteAct(callers, idLists) ==
    \/ \E u \in callers, ids \in idLists :
        /\ LET r == BulkDelete(store, ids, "none")
           IN  /\ store' = r.coll
               /\ ret' = [NoRet EXCEPT !.op = "BulkDelete", !.caller = u,
                                       !.err = r.err, !.ids = ids, !.count = r.count]
        /\ UNCHANGED <<clock, nextId, calls, db>>
    \/ /\ LET r == BulkDelete(store, << >>, "storage")
          IN  /\ store' = r.coll
              /\ ret' = [Failed("BulkDelete") EXCEPT !.count = r.count]
       /\ UNCHANGED <<clock, nextId, calls, db>>

GetStatsByUserAct ==
    \/ \E u \in Owners :
        /\ LET r == GetStatsByUser(store, u, clock, "none")
           IN  ret' = [NoRet EXCEPT !.op = "GetStatsByUser", !.caller = u,
                                    !.owner = u, !.err = r.err, !.stats = r.stats,
                                    !.now = clock]
        /\ UNCHANGED <<store, clock, nextId, calls, db>>
    \/ /\ ret' = [Failed("GetStatsByUser") EXCEPT
                    !.stats = GetStatsByUser(store, "", clock, "storage").stats]
       /\ UNCHANGED <<store, clock, nextId, calls, db>>

GetByUserIDAct(callers, pages, limits, filterSet, fails) ==
    \E u \in callers, page \in pages, limit \in limits, filters \in filterSet,
       fail \in fails :
        /\ \E r \in GetByUserID(store, u, page, limit, filters, fail) :
             ret' = [NoRet EXCEPT !.op = "GetByUserID", !.caller = u, !.owner = u,
                                  !.err = r.err, !.page = page, !.limit = limit,
                                  !.filters = filters, !.tasks = r.tasks,
                                  !.total = r.total, !.fail = fail]
        /\ UNCHANGED <<store, clock, nextId, calls, db>>

GetOverdueTodosAct(callers, fails) ==
    \E u \in callers, fail \in fails :
        /\ \E r \in GetOverdueTodos(store, u, clock, fail) :
             ret' = [NoRet EXCEPT !.op = "GetOverdueTodos", !.caller = u,
                                  !.owner = u, !.err = r.err, !.tasks = r.tasks,
                                  !.now = clock, !.fail = fail]
        /\ UNCHANGED <<store, clock, nextId, calls, db>>

\* ------------------------------------------- the repository from an empty
\* collection: any sequence of calls
Init ==
    /\ store = << >>
    /\ clock = 1
    /\ nextId = 1
    /\ ret = NoRet
    /\ calls = << >>
    /\ db = OpenDB

Next ==
    \/ Tick
    \/ CreateAct({NewTask(ContentA, "", NoTime)}, {TRUE})
    \/ GetByIDAct({"u1"}, IdInputs)
    \/ GetByUserIDAct(Owners, {1, 2}, {1}, {NoFilters}, {"none"})
    \/ UpdateAct(Owners, IdInputs, {NewTask(ContentB, StatusCompleted, NoTime)})
    \/ DeleteAct({"u1"}, IdInputs)
    \/ UpdateStatusAct({"u1"}, IdInputs, {StatusCompleted, StatusCancelled, "bogus"})
    \/ BulkUpdateStatusAct({"u1"}, {<<1, 2>>}, {StatusCompleted, StatusPending})
    \/ BulkDeleteAct({"u1"}, {<<1, 2>>})
    \/ GetStatsByUserAct

Spec == Init /\ [][Next]_vars

\* ------------------------------------------- one call of GetByUserID on a
\* populated collection
\* documents the repository can have stored under id i: a task created by
\* owner u at time t, as it is, after an Update at time t, or after an
\* UpdateStatus at time t
CreatedDoc(i, u, t) ==
    Create(<< >>, PrepareForCreate(NewTask(ContentA, "", NoTime), u, t, i), i,
           "none").coll[i]

UpdatedDoc(i, u, t) ==
    Update(i :> CreatedDoc(i, u, t),
           [NewTask(ContentB, StatusCompleted, t) EXCEPT !.id = i, !.user_id = u],
           t, "none").coll[i]

StatusDoc(i, u, t, status) ==
    UpdateStatus(i :> CreatedDoc(i, u, t), i, status, t, t, "none").coll[i]

\* the times at which the stored tasks were created
CreatedInputs == {1, 2}

QueryStores ==
    {[i \in D |-> IF g[i][3] THEN UpdatedDoc(i, g[i][1], g[i][2])
                  ELSE CreatedDoc(i, g[i][1], g[i][2])] :
        g \in [1..MaxDocs -> Owners \X CreatedInputs \X BOOLEAN],
        D \in SUBSET (1..MaxDocs)}

FilterInputs ==
    {NoFilters,
     [NoFilters EXCEPT !.Status = StatusPending],
     [NoFilters EXCEPT !.Priority = PriorityHigh, !.Tags = <<"y", "z">>],
     [NoFilters EXCEPT !.IsArchived = "true", !.DueBefore = 1, !.DueAfter = 1],
     [NoFilters EXCEPT !.DueBefore = 0, !.DueAfter = 0],
     [NoFilters EXCEPT !.Search = <<"b">>],
     [NoFilters EXCEPT !.Search = <<".", "b">>],
     [NoFilters EXCEPT !.Search = <<"a">>, !.Status = StatusCompleted]}

InitQuery ==
    /\ store \in QueryStores
    /\ clock = MaxClock
    /\ nextId = MaxDocs + 1
    /\ ret = NoRet
    /\ calls = << >>
    /\ db = OpenDB

NextQuery ==
    \/ /\ ret = NoRet
       /\ GetByUserIDAct({"u1"}, 0..MaxPage, 0..MaxLimit, FilterInputs, {"none"})
    \/ /\ ret = NoRet
       /\ GetByUserIDAct({"u1"}, {1}, {MaxLimit}, {NoFilters},
                         {"count", "find", "decode", "next"})

SpecQuery == InitQuery /\ [][NextQuery]_vars

\* ------------------------------------------- one call of a mutation or of
\* GetByID on a populated collection
\* every id was handed out; the ids that are not stored were deleted.  The
\* stored tasks were created, updated or given a status at time 1.
CallStores ==
    {[i \in D |-> CASE g[i][2] = "created" -> CreatedDoc(i, g[i][1], 1)
                    [] g[i][2] = "updated" -> UpdatedDoc(i, g[i][1], 1)
                    [] OTHER -> StatusDoc(i, g[i][1], 1, g[i][2])] :
        g \in [IdInputs -> Owners \X {"created", "updated", StatusCompleted, StatusCancelled}],
        D \in SUBSET IdInputs}

\* the id lists of the bulk operations: no id, one id or two ids
BulkIdInputs ==
    {<< >>} \cup {<<i>> : i \in IdInputs} \cup {<<i, j>> : i, j \in IdInputs}

\* enums.TaskStatus is a string type: a caller can pass any string
StatusInputs == GetAllStatuses \cup {"bogus"}

UpdateInputs ==
    {NewTask(ContentB, StatusInProgress, NoTime),
     NewTask(ContentB, StatusCompleted, 1),
     NewTask(ContentA, StatusCompleted, NoTime)}

InitCall ==
    /\ store \in CallStores
    /\ clock \in 1..MaxClock
    /\ nextId = MaxId + 1
    /\ ret = NoRet
    /\ calls = << >>
    /\ db = OpenDB

NextCall ==
    \/ ret = NoRet /\ GetByIDAct({"u1"}, IdInputs)
    \/ ret = NoRet /\ UpdateAct({"u1"}, IdInputs, UpdateInputs)
    \/ ret = NoRet /\ DeleteAct({"u1"}, IdInputs)
    \/ ret = NoRet /\ UpdateStatusAct({"u1"}, IdInputs, StatusInputs)
    \/ ret = NoRet /\ BulkUpdateStatusAct({"u1"}, BulkIdInputs, StatusInputs)
    \/ ret = NoRet /\ BulkDeleteAct({"u1"}, BulkIdInputs)

SpecCall == InitCall /\ [][NextCall]_vars

\* ------------------------------------------- the overdue list, before and
\* after a status change, on a populated collection
\* a task with a due date: title, description, priority and tags of ContentB
ContentDue(due) == [ContentB EXCEPT !.due_date = due]

\* a task created by owner u at time 1 with due date due
DueDoc(i, u, due) ==
    Create(<< >>, PrepareForCreate(NewTask(ContentDue(due), "", NoTime), u, 1, i), i,
           "none").coll[i]

\* the same task after an Update at time 1 that archives it
ArchivedDoc(i, u, due) ==
    Update(i :> DueDoc(i, u, due),
           [NewTask(ContentDue(due), StatusInProgress, NoTime)
                EXCEPT !.id = i, !.user_id = u],
           1, "none").coll[i]

\* the same task after an UpdateStatus at time 1 that completes it
DoneDoc(i, u, due) ==
    UpdateStatus(i :> DueDoc(i, u, due), i, StatusCompleted, 1, 1, "none").coll[i]

OverdueStores ==
    {[i \in D |-> CASE g[i][2] = "nodue" -> CreatedDoc(i, g[i][1], 1)
                    [] g[i][2] = "due0" -> DueDoc(i, g[i][1], 0)
                    [] g[i][2] = "due1" -> DueDoc(i, g[i][1], 1)
                    [] g[i][2] = "archived" -> ArchivedDoc(i, g[i][1], 0)
                    [] OTHER -> DoneDoc(i, g[i][1], 0)] :
        g \in [IdInputs -> Owners \X {"nodue", "due0", "due1", "archived", "done"}],
        D \in SUBSET IdInputs}

InitOverdue ==
    /\ store \in OverdueStores
    /\ clock \in 1..MaxClock
    /\ nextId = MaxId + 1
    /\ ret = NoRet
    /\ calls = << >>
    /\ db = OpenDB

\* a GetOverdueTodos call, or an UpdateStatus call and then a GetOverdueTodos
\* call
NextOverdue ==
    \/ ret = NoRet /\ UpdateStatusAct({"u1"}, IdInputs, {StatusCompleted, StatusCancelled})
    \/ ret.op # "GetOverdueTodos" /\ GetOverdueTodosAct(Owners, {"none"})
    \/ ret = NoRet /\ GetOverdueTodosAct({"u1"}, {"find", "decode", "next"})

SpecOverdue == InitOverdue /\ [][NextOverdue]_vars

\* ------------------------------------------- a GetOverdueTodos call and
\* then a GetStatsByUser call, on a populated collection, with no write
\* between them; the clock may move between them
NextOverdueCount ==
    \/ ret = NoRet /\ GetOverdueTodosAct(Owners, {"none"})
    \/ ret.op = "GetOverdueTodos" /\ Tick
    \/ ret.op = "GetOverdueTodos" /\ GetStatsByUserAct

SpecOverdueCount == InitOverdue /\ [][NextOverdueCount]_vars

\* ------------------------------------------- Create calls on an empty
\* collection, then a GetByID call
\* the tasks given to Create: without status and priority; with a status, a
\* priority, tags, a due date and isArchived set; with a description and a
\* due date and a completion time that have a sub-millisecond part
CreateInputs ==
    {NewTask(ContentA, "", NoTime),
     NewTask(ContentB, StatusInProgress, NoTime),
     NewTask([ContentA EXCEPT !.description = <<"c">>, !.due_date = 1 + SubMs],
             StatusCompleted, 1 + SubMs)}

InitCreate ==
    /\ store = << >>
    /\ clock \in 1..MaxClock
    /\ nextId = 1
    /\ ret = NoRet
    /\ calls = << >>
    /\ db = OpenDB

NextCreate ==
    \/ ret.op # "GetByID" /\ CreateAct(CreateInputs, BOOLEAN)
    \/ ret.op = "Create" /\ GetByIDAct({"u1"}, IdInputs)

SpecCreate == InitCreate /\ [][NextCreate]_vars

\* ------------------------------------------- concurrent calls on a
\* populated collection
\* A call reads the clock and builds its filter and update (Begin...), and
\* later its one storage operation is done, atomically (Finish...); calls
\* that have begun are done in any order.
NoCall ==
    [op |-> "none", id |-> NilID, ids |-> << >>, status |-> "", todo |-> ZeroTask,
     ctx |-> "nil", now |-> 0, now2 |-> 0, during |-> {}, res |-> "running",
     count |-> 0]

Running == {n \in DOMAIN calls : calls[n].res = "running"}

\* the context a caller passes: nil, a context without a deadline (such as
\* context.Background()), or a context with a deadline
Ctxs == {"nil", "no_deadline", "deadline"}

\* if ctx == nil { ctx, cancel = context.WithTimeout(context.Background(), ...) }
WithDefaultTimeout(ctx) == IF ctx = "nil" THEN "default_deadline" ELSE ctx

HasDeadline(ctx) == ctx \in {"default_deadline", "deadline"}

Begin(c, ctx) ==
    /\ Len(calls) < MaxCalls
    /\ calls' = Append(calls, [c EXCEPT !.ctx = WithDefaultTimeout(ctx),
                                        !.now = clock, !.during = Running])
    /\ clock' = IF c.now2 > clock THEN c.now2 ELSE clock
    /\ UNCHANGED <<store, nextId, ret, db>>

BeginUpdate(ids, tasks, ctxs) ==
    \E id \in ids, t \in tasks, ctx \in ctxs :
        Begin([NoCall EXCEPT !.op = "Update", !.id = id,
                             !.todo = [t EXCEPT !.id = id, !.user_id = "u1"]], ctx)

BeginUpdateStatus(ids, statuses, ctxs) ==
    \E id \in ids, st \in statuses, now2 \in Later(clock), ctx \in ctxs :
        Begin([NoCall EXCEPT !.op = "UpdateStatus", !.id = id, !.status = st,
                             !.now2 = now2], ctx)

BeginBulkUpdateStatus(idLists, statuses, ctxs) ==
    \E ids \in idLists, st \in statuses, now2 \in Later(clock), ctx \in ctxs :
        Begin([NoCall EXCEPT !.op = "BulkUpdateStatus", !.ids = ids, !.status = st,
                             !.now2 = now2], ctx)

BeginDelete(ids, ctxs) ==
    \E id \in ids, ctx \in ctxs :
        Begin([NoCall EXCEPT !.op = "Delete", !.id = id], ctx)

\* the deadline of the context of call n passes before the store has
\* answered: the driver gives up and the call returns the context's error
Expire(n) ==
    /\ n \in Running
    /\ HasDeadline(calls[n].ctx)
    /\ calls' = [calls EXCEPT ![n].res = "timeout"]
    /\ UNCHANGED <<store, clock, nextId, ret, db>>

\* the storage operation of call n is done: r is what the call returns
Finish(n, r) ==
    /\ store' = r.coll
    /\ calls' = [calls EXCEPT ![n].res = r.err, ![n].count = r.count]
    /\ UNCHANGED <<clock, nextId, ret, db>>

FinishUpdate ==
    \E n \in Running :
        /\ calls[n].op = "Update"
        /\ LET r == Update(store, calls[n].todo, calls[n].now, "none")
           IN  Finish(n, [coll |-> r.coll, err |-> r.err, count |-> 0])

FinishUpdateStatus ==
    \E n \in Running :
        /\ calls[n].op = "UpdateStatus"
        /\ LET c == calls[n]
               r == UpdateStatus(store, c.id, c.status, c.now, c.now2, "none")
           IN  Finish(n, [coll |-> r.coll, err |-> r.err, count |-> 0])

FinishBulkUpdateStatus ==
    \E n \in Running :
        /\ calls[n].op = "BulkUpdateStatus"
        /\ LET c == calls[n]
           IN  Finish(n, BulkUpdateStatus(store, c.ids, c.status, c.now, c.now2, "none"))

FinishDelete ==
    \E n \in Running :
        /\ calls[n].op = "Delete"
        /\ LET r == Delete(store, calls[n].id, "none")
           IN  Finish(n, [coll |-> r.coll, err |-> r.err, count |-> 0])

\* every id is stored: tasks of u1 created at time 1
InitConc ==
    /\ store = [i \in IdInputs |-> CreatedDoc(i, "u1", 1)]
    /\ clock = 1
    /\ nextId = MaxId + 1
    /\ ret = NoRet
    /\ calls = << >>
    /\ db = OpenDB

NextConc ==
    \/ Tick /\ Running # {}
    \/ BeginUpdate(IdInputs, {NewTask(ContentB, StatusInProgress, NoTime)}, {"nil"})
    \/ BeginUpdateStatus(IdInputs, {StatusCompleted}, {"nil"})
    \/ BeginBulkUpdateStatus({[i \in IdInputs |-> i]}, {StatusCancelled}, {"nil"})
    \/ BeginDelete(IdInputs, {"nil"})
    \/ FinishUpdate
    \/ FinishUpdateStatus
    \/ FinishBulkUpdateStatus
    \/ FinishDelete

SpecConc == InitConc /\ [][NextConc]_vars

\* ------------------------------------------- concurrent calls, the
\* multi-document operations document by document
\* UpdateMany and DeleteMany write one document at a time, each write atomic,
\* and writes of other calls come between them: ids of a running bulk call
\* holds the ids the store has not visited yet.

\* task values whose status and CompletedAt were set by MarkAsCompleted or
\* MarkAsPending at time now
MarkedInputs(now) ==
    {MarkAsCompleted(NewTask(ContentA, StatusPending, NoTime), now),
     MarkAsPending(NewTask(ContentB, StatusCompleted, now), now)}

BeginCreate(tasks) ==
    \E t \in tasks :
        Begin([NoCall EXCEPT !.op = "Create", !.todo = [t EXCEPT !.user_id = "u1"]],
              "nil")

BeginBulkDelete(idLists) ==
    \E ids \in idLists :
        Begin([NoCall EXCEPT !.op = "BulkDelete", !.ids = ids], "nil")

FinishCreate ==
    \E n \in Running :
        /\ calls[n].op = "Create"
        /\ LET r == Create(store, calls[n].todo, nextId, "none")
           IN  /\ store' = r.coll
               /\ calls' = [calls EXCEPT ![n].res = r.err, ![n].id = r.todo.id]
        /\ nextId' = nextId + 1
        /\ UNCHANGED <<clock, ret, db>>

\* s without its k-th element
Without(s, k) == SubSeq(s, 1, k - 1) \o SubSeq(s, k + 1, Len(s))

\* the store has visited one more id of bulk call n: r is the outcome of the
\* operation on that id
StepBulk(n, k, r) ==
    /\ store' = r.coll
    /\ calls' = [calls EXCEPT ![n].ids = Without(@, k),
                              ![n].count = @ + r.count,
                              ![n].res = IF Len(calls[n].ids) = 1 THEN r.err
                                         ELSE "running"]
    /\ UNCHANGED <<clock, nextId, ret, db>>

StepBulkUpdateStatus ==
    \E n \in Running :
        /\ calls[n].op = "BulkUpdateStatus"
        /\ \E k \in DOMAIN calls[n].ids :
            LET c == calls[n]
            IN  StepBulk(n, k, BulkUpdateStatus(store, <<c.ids[k]>>, c.status,
                                                c.now, c.now2, "none"))

StepBulkDelete ==
    \E n \in Running :
        /\ calls[n].op = "BulkDelete"
        /\ \E k \in DOMAIN calls[n].ids :
            StepBulk(n, k, BulkDelete(store, <<calls[n].ids[k]>>, "none"))

NextAtomic ==
    \/ BeginCreate(MarkedInputs(clock))
    \/ BeginUpdate({1}, MarkedInputs(clock), {"nil"})
    \/ BeginUpdateStatus({1}, {StatusCompleted, StatusPending}, {"nil"})
    \/ BeginBulkUpdateStatus({<<1, 2>>}, {StatusCompleted, StatusCancelled}, {"nil"})
    \/ BeginDelete({2}, {"nil"})
    \/ BeginBulkDelete({<<1, 2>>})
    \/ FinishCreate
    \/ FinishUpdate
    \/ FinishUpdateStatus
    \/ StepBulkUpdateStatus
    \/ FinishDelete
    \/ StepBulkDelete

SpecAtomic == InitConc /\ [][NextAtomic]_vars

\* ------------------------------------------- GetStatsByUser, round trip
\* by round trip, among concurrent writes
\* A GetStatsByUser call in flight: step counts the round trips done, stats
\* holds what they have put in the result so far.
StatsCall(userID) ==
    [f \in DOMAIN NoCall \cup {"owner", "step", "stats"} |->
        CASE f = "op" -> "GetStatsByUser"
          [] f = "owner" -> userID
          [] f = "step" -> 0
          [] f = "stats" -> ZeroStats
          [] OTHER -> NoCall[f]]

BeginGetStatsByUser(owners) ==
    \E u \in owners : Begin(StatsCall(u), "nil")

\* one round trip of call n, which puts the fields of the result named in
\* fields, as computed on the store of this moment
StatsRoundTrip(n, step, fields) ==
    /\ n \in Running
    /\ calls[n].op = "GetStatsByUser"
    /\ calls[n].step = step
    /\ LET r == GetStatsByUser(store, calls[n].owner, clock, "none")
       IN  calls' = [calls EXCEPT
                        ![n].stats = [f \in DOMAIN @ |->
                                        IF f \in fields THEN r.stats[f] ELSE @[f]],
                        ![n].step = step + 1,
                        ![n].now = clock,
                        ![n].res = IF step = 2 THEN "none" ELSE "running"]
    /\ UNCHANGED <<store, clock, nextId, ret, db>>

\* collection.Aggregate and the loop over its cursor
StatsAggregate ==
    \E n \in Running :
        StatsRoundTrip(n, 0, {"Total", "Pending", "InProgress", "Completed", "Cancelled"})

\* the CountDocuments of the archived tasks
StatsCountArchived == \E n \in Running : StatsRoundTrip(n, 1, {"Archived"})

\* the CountDocuments of the overdue tasks, with its own time.Now()
StatsCountOverdue == \E n \in Running : StatsRoundTrip(n, 2, {"Overdue"})

\* the collection is empty or holds one completed task of u1 that was due
\* at time 0
InitStats ==
    /\ store \in {<< >>, 1 :> DoneDoc(1, "u1", 0)}
    /\ clock = 1
    /\ nextId = 2
    /\ ret = NoRet
    /\ calls = << >>
    /\ db = OpenDB

NextStats ==
    \/ Tick /\ Running # {}
    \/ BeginGetStatsByUser({"u1"})
    \/ BeginCreate({NewTask(ContentB, StatusPending, NoTime)})
    \/ BeginUpdate({1}, {NewTask(ContentB, StatusPending, NoTime)}, {"nil"})
    \/ BeginDelete({1}, {"nil"})
    \/ StatsAggregate
    \/ StatsCountArchived
    \/ StatsCountOverdue
    \/ FinishCreate
    \/ FinishUpdate
    \/ FinishDelete

SpecStats == InitStats /\ [][NextStats]_vars

\* ------------------------------------------- calls with a context, on a
\* store that may never answer
\* The storage operation of a call may be done or not (no fairness on
\* Finish...); a deadline that is set does pass.
NextTimeout ==
    \/ BeginUpdate({1}, {NewTask(ContentB, StatusInProgress, NoTime)}, Ctxs)
    \/ BeginUpdateStatus({1}, {StatusCompleted}, Ctxs)
    \/ BeginBulkUpdateStatus({<<1>>}, {StatusCancelled}, Ctxs)
    \/ BeginDelete({1}, Ctxs)
    \/ FinishUpdate
    \/ FinishUpdateStatus
    \/ FinishBulkUpdateStatus
    \/ FinishDelete
    \/ \E n \in 1..MaxCalls : Expire(n)

SpecTimeout ==
    /\ InitConc
    /\ [][NextTimeout]_vars
    /\ \A n \in 1..MaxCalls : WF_vars(Expire(n))

\* ------------------------------------------- the shared MongoDB handle
\* Calls of GetCollection, Close, Health and CreateIndexes on one handle, from
\* concurrent goroutines.  pc is the position of a call: "lock" before
\* m.mu.Lock() returns, "body" with the mutex held, in Close "disconnected"
\* or "disconnect_failed" after client.Disconnect, and "done" after the
\* deferred m.mu.Unlock().  res is what the call returns.
HandleCall(op) ==
    [f \in DOMAIN NoCall \cup {"pc"} |->
        CASE f = "op" -> op
          [] f = "pc" -> "lock"
          [] OTHER -> NoCall[f]]

HandleOps == {"GetCollection", "Close", "Health", "CreateIndexes"}

BeginHandle(ops) ==
    \E op \in ops : Begin(HandleCall(op), "nil")

\* variant: the mutex is not waited for
LockNoWait(n) ==
    /\ n \in Running
    /\ calls[n].op \in HandleOps
    /\ calls[n].pc = "lock"
    /\ db' = [db EXCEPT !.mu = TRUE]
    /\ calls' = [calls EXCEPT ![n].pc = "body"]
    /\ UNCHANGED <<store, clock, nextId, ret>>

\* m.mu.Lock() of call n returns
Lock(n) ==
    /\ n \in Running
    /\ calls[n].op \in HandleOps
    /\ calls[n].pc = "lock"
    /\ ~db.mu
    /\ db' = [db EXCEPT !.mu = TRUE]
    /\ calls' = [calls EXCEPT ![n].pc = "body"]
    /\ UNCHANGED <<store, clock, nextId, ret>>

\* call n returns res, and its deferred m.mu.Unlock() runs
Return(n, res, closed) ==
    /\ db' = [db EXCEPT !.mu = FALSE, !.closed = closed]
    /\ calls' = [calls EXCEPT ![n].pc = "done", ![n].res = res]
    /\ UNCHANGED <<store, clock, nextId, ret>>

\* GetCollection: nil on a closed handle, the collection otherwise
GetCollection(n) ==
    /\ n \in Running
    /\ calls[n].op = "GetCollection" /\ calls[n].pc = "body"
    /\ Return(n, IF db.closed THEN "nil" ELSE "collection", db.closed)

\* Health: an error on a closed handle, the result of client.Ping otherwise
Health(n) ==
    /\ n \in Running
    /\ calls[n].op = "Health" /\ calls[n].pc = "body"
    /\ \E ping \in {"none", "storage"} :
         Return(n, IF db.closed THEN "closed" ELSE ping, db.closed)

\* CreateIndexes: an error on a closed handle, nil otherwise
CreateIndexes(n) ==
    /\ n \in Running
    /\ calls[n].op = "CreateIndexes" /\ calls[n].pc = "body"
    /\ Return(n, IF db.closed THEN "closed" ELSE "none", db.closed)

\* Close on a closed handle returns nil; on an open one it calls
\* client.Disconnect, which succeeds or fails
Close(n) ==
    /\ n \in Running
    /\ calls[n].op = "Close" /\ calls[n].pc = "body"
    /\ \/ db.closed /\ Return(n, "none", db.closed)
       \/ /\ ~db.closed
          /\ \E ok \in BOOLEAN :
               /\ db' = [db EXCEPT !.disconnects = IF ok THEN @ + 1 ELSE @]
               /\ calls' = [calls EXCEPT
                              ![n].pc = IF ok THEN "disconnected"
                                        ELSE "disconnect_failed"]
          /\ UNCHANGED <<store, clock, nextId, ret>>

\* Close after client.Disconnect: the error, or closed = true and nil
CloseReturn(n) ==
    /\ n \in Running
    /\ calls[n].op = "Close"
    /\ \/ calls[n].pc = "disconnect_failed" /\ Return(n, "storage", db.closed)
       \/ calls[n].pc = "disconnected" /\ Return(n, "none", TRUE)

InitHandle ==
    /\ store = << >>
    /\ clock = 1
    /\ nextId = 1
    /\ ret = NoRet
    /\ calls = << >>
    /\ db = OpenDB

NextHandle ==
    \/ BeginHandle(HandleOps)
    \/ \E n \in 1..MaxCalls : Lock(n)
    \/ \E n \in 1..MaxCalls : GetCollection(n)
    \/ \E n \in 1..MaxCalls : Health(n)
    \/ \E n \in 1..MaxCalls : CreateIndexes(n)
    \/ \E n \in 1..MaxCalls : Close(n)
    \/ \E n \in 1..MaxCalls : CloseReturn(n)

SpecHandle == InitHandle /\ [][NextHandle]_vars

\* ------------------------------------------------------------- properties
\* a call of op returns in this step
Called(op) == ret'.op = op /\ ret' # ret

Existing(ids) == Elems(ids) \cap DOMAIN store

\* C1: every stored task has completedAt set if and only if its status is
\* completed, after any sequence of Create, Update, UpdateStatus and
\* BulkUpdateStatus calls.
C1_CompletedAtIffCompleted ==
    \A i \in DOMAIN store :
        (store[i].completed_at # NoTime) <=> (store[i].status = StatusCompleted)

\* C3: a mutation or a by-id read made for one owner never changes, removes
\* or returns a task of another owner.
C3_OwnerScoped ==
    [][/\ \A i \in DOMAIN store :
            (i \notin DOMAIN store' \/ store'[i] # store[i])
                => store[i].user_id = ret'.caller
       /\ (Called("GetByID") /\ ret'.err = "none")
            => ret'.todo.user_id = ret'.caller]_vars

\* C4: the stats GetStatsByUser returns satisfy
\* total = pending + inProgress + completed + cancelled.
C4_TotalIsSumOfBuckets ==
    (ret.op = "GetStatsByUser" /\ ret.err = "none")
        => ret.stats.Total = ret.stats.Pending + ret.stats.InProgress
                                + ret.stats.Completed + ret.stats.Cancelled

\* C5: UpdateStatus(id, newStatus) on a stored task sets its status to
\* newStatus and updatedAt to the time of the call, sets completedAt to the
\* (later reading of the) current time when newStatus is completed and clears
\* it otherwise; on an id that is not stored it returns not-found and leaves
\* the store as it was.
C5_UpdateStatus ==
    [][(Called("UpdateStatus") /\ ret'.fail = "none") =>
        IF ret'.id \in DOMAIN store
        THEN /\ ret'.err = "none"
             /\ DOMAIN store' = DOMAIN store
             /\ store'[ret'.id].status = ret'.status
             /\ store'[ret'.id].updated_at = clock
             /\ IF ret'.status = StatusCompleted
                THEN /\ store'[ret'.id].completed_at # NoTime
                     /\ store'[ret'.id].completed_at >= clock
                     /\ store'[ret'.id].completed_at <= clock'
                ELSE store'[ret'.id].completed_at = NoTime
        ELSE ret'.err = "not_found" /\ store' = store]_vars

C5_Witness ==
    /\ ret.op = "UpdateStatus" /\ ret.err = "none"
    /\ ret.status = StatusCancelled
    /\ store[ret.id].completed_at = NoTime
    /\ store[ret.id].created_at < store[ret.id].updated_at

\* C6 as claimed: BulkUpdateStatus returns, without error, the number of the
\* given ids that exist in the store.
C6_CountIsExisting ==
    [][(Called("BulkUpdateStatus") /\ ret'.fail = "none") =>
        /\ ret'.err = "none"
        /\ ret'.count = Cardinality(Existing(ret'.ids))]_vars

\* C6 amended: BulkUpdateStatus returns, without error, the number of records
\* it modified: the stored records with one of the given ids that the update
\* changes.  Ids that are not stored are skipped, a stored record that already
\* has the new status, updatedAt and completedAt is matched but not counted,
\* and a record whose status differs from newStatus is counted.
C6_CountIsModified ==
    [][(Called("BulkUpdateStatus") /\ ret'.fail = "none") =>
        /\ ret'.err = "none"
        /\ DOMAIN store' = DOMAIN store
        /\ ret'.count = Cardinality({i \in Existing(ret'.ids) : store'[i] # store[i]})
        /\ ret'.count >= Cardinality({i \in Existing(ret'.ids) :
                                        store[i].status # ret'.status})
        /\ \A i \in Existing(ret'.ids) : store'[i].status = ret'.status
        /\ \A i \in DOMAIN store \ Elems(ret'.ids) : store'[i] = store[i]]_vars

\* one of the two ids is stored and is modified, the other is not stored
C6_Witness ==
    /\ ret.op = "BulkUpdateStatus" /\ ret.err = "none"
    /\ ret.ids = <<1, 2>> /\ ret.status = StatusCompleted
    /\ Cardinality(DOMAIN store) = 1
    /\ ret.count = 1

\* C7: Delete(id) removes the task and succeeds exactly when a task with that
\* id is stored; otherwise (never stored, or deleted before) it returns
\* not-found and leaves the store as it was.
C7_Delete ==
    [][(Called("Delete") /\ ret'.fail = "none") =>
        IF ret'.id \in DOMAIN store
        THEN /\ ret'.err = "none"
             /\ DOMAIN store' = DOMAIN store \ {ret'.id}
             /\ \A i \in DOMAIN store' : store'[i] = store[i]
        ELSE ret'.err = "not_found" /\ store' = store]_vars

\* a Delete of an id that was created and is no longer stored
C7_Witness ==
    /\ ret.op = "Delete" /\ ret.err = "not_found"
    /\ ret.id < nextId
    /\ ret.id \notin DOMAIN store

\* C8: Update(task) replaces title, description, status, priority, dueDate,
\* tags, isArchived and completedAt of the stored record with the task's id
\* and sets updatedAt to the time of the call; when no record has that id it
\* returns not-found and the store is as it was (no record is created).
C8_Update ==
    [][(Called("Update") /\ ret'.fail = "none") =>
        IF ret'.id \in DOMAIN store
        THEN /\ ret'.err = "none"
             /\ DOMAIN store' = DOMAIN store
             /\ LET d == store'[ret'.id]
                    t == ret'.todo
                IN  /\ d.title = t.title /\ d.description = t.description
                    /\ d.status = t.status /\ d.priority = t.priority
                    /\ d.due_date = t.due_date /\ d.tags = t.tags
                    /\ d.is_archived = t.is_archived
                    /\ d.completed_at = t.completed_at
                    /\ d.updated_at = clock
        ELSE ret'.err = "not_found" /\ store' = store]_vars

\* an Update that replaced the fields of a record created earlier
C8_Witness ==
    /\ ret.op = "Update" /\ ret.err = "none"
    /\ store[ret.id].title = ContentB.title
    /\ store[ret.id].is_archived
    /\ store[ret.id].created_at < store[ret.id].updated_at

\* the owner's tasks that match the filters
OwnerMatching(owner, filters) ==
    {d \in Docs(store) : d.user_id = owner /\ Matches(d, applyFilters(EmptyM, filters))}

\* C2: GetByUserID returns only tasks of the queried owner, whatever the
\* page, the limit and the filters (the free-text search included) and
\* whatever the store holds.
C2_OnlyOwnersTasks ==
    ret.op = "GetByUserID"
        => \A k \in DOMAIN ret.tasks : ret.tasks[k].user_id = ret.owner

\* a search that returned a task while a task of another owner matches it too
C2_Witness ==
    /\ ret.op = "GetByUserID" /\ ret.err = "none"
    /\ Len(ret.filters.Search) > 0
    /\ Len(ret.tasks) > 0
    /\ \E o \in Owners \ {ret.owner} : OwnerMatching(o, ret.filters) # {}

\* C9: for page >= 1 and limit > 0 (and a store that answers) GetByUserID
\* returns the tasks at positions skip = (page-1)*limit .. skip+limit-1 of the
\* owner's filtered tasks in an order by createdAt descending: at most limit
\* tasks, none when skip is at or beyond the number of matching tasks.
C9_PageOfSortedTasks ==
    (ret.op = "GetByUserID" /\ ret.fail = "none" /\ ret.page >= 1 /\ ret.limit > 0) =>
        LET M == OwnerMatching(ret.owner, ret.filters)
            n == Cardinality(M)
            skip == (ret.page - 1) * ret.limit
            t == ret.tasks
        IN  /\ ret.err = "none"
            /\ Len(t) = IF skip >= n THEN 0 ELSE Min(ret.limit, n - skip)
            /\ Len(t) <= ret.limit
            /\ \A k \in DOMAIN t : t[k] \in M
            /\ \A j, k \in DOMAIN t : j < k =>
                    t[j] # t[k] /\ t[j].created_at >= t[k].created_at
            \* t[k] stands at position skip + k of an order by createdAt descending
            /\ \A k \in DOMAIN t :
                /\ Cardinality({d \in M : d.created_at > t[k].created_at}) <= skip + k - 1
                /\ Cardinality({d \in M : d.created_at >= t[k].created_at}) >= skip + k

\* a second page that is shorter than the limit
C9_Witness ==
    /\ ret.op = "GetByUserID" /\ ret.err = "none"
    /\ ret.page = 2 /\ ret.limit = 2
    /\ Len(ret.tasks) = 1
    /\ Cardinality(OwnerMatching(ret.owner, ret.filters)) = 3

\* C10: the total GetByUserID returns is the number of the owner's tasks that
\* match the filters: a value of the store, the owner and the filters alone,
\* the same for every page and limit, also past the end of the results.
C10_TotalIndependentOfPage ==
    (ret.op = "GetByUserID" /\ ret.err = "none") =>
        ret.total = Cardinality(OwnerMatching(ret.owner, ret.filters))

\* a page past the end: no tasks, and the total of the tasks there are
C10_Witness ==
    /\ ret.op = "GetByUserID" /\ ret.err = "none"
    /\ ret.total > 0
    /\ (ret.page - 1) * ret.limit >= ret.total
    /\ ret.tasks = << >>

\* what the filters ask of a task: every supplied filter holds
SatisfiesFilters(d, f) ==
    /\ f.Status # "" => d.status = f.Status
    /\ f.Priority # "" => d.priority = f.Priority
    /\ Len(f.Tags) > 0 => Elems(d.tags) \cap Elems(f.Tags) # {}
    /\ f.IsArchived # "nil" => d.is_archived = (f.IsArchived = "true")
    /\ f.DueBefore # NoTime => d.due_date # NoTime /\ d.due_date <= f.DueBefore
    /\ f.DueAfter # NoTime => d.due_date # NoTime /\ d.due_date >= f.DueAfter
    /\ Len(f.Search) > 0 => \/ RegexMatch(d.title, f.Search, "i")
                             \/ RegexMatch(d.description, f.Search, "i")

\* C11: GetByUserID matches a task of the owner iff the task satisfies every
\* supplied filter (status, priority and isArchived exactly, any listed tag,
\* dueBefore and dueAfter as inclusive bounds, the search on the title or the
\* description); an unset filter constrains nothing.  The total counts the
\* matched tasks, and a call without skip and limit returns them all.
C11_FiltersAndCombined ==
    (ret.op = "GetByUserID" /\ ret.err = "none" /\ ret.fail = "none") =>
        LET M == {d \in Docs(store) :
                    d.user_id = ret.owner /\ SatisfiesFilters(d, ret.filters)}
        IN  /\ ret.total = Cardinality(M)
            /\ Elems(ret.tasks) \subseteq M
            /\ ret.limit = 0 => Elems(ret.tasks) = M

\* two filters are supplied; a task that satisfies both is returned and a
\* task of the owner that satisfies only the search is not
C11_Witness ==
    /\ ret.op = "GetByUserID" /\ ret.err = "none" /\ ret.limit = 0
    /\ ret.filters.Status # "" /\ Len(ret.filters.Search) > 0
    /\ ret.tasks # << >>
    /\ \E d \in Docs(store) \ Elems(ret.tasks) :
          /\ d.user_id = ret.owner
          /\ RegexMatch(d.title, ret.filters.Search, "i")

\* the owner's tasks that are overdue at time now and not archived
OverdueOf(coll, owner, now) ==
    {d \in Docs(coll) : /\ d.user_id = owner
                        /\ d.due_date # NoTime /\ d.due_date < now
                        /\ d.status # StatusCompleted
                        /\ ~d.is_archived}

\* C12: a GetOverdueTodos call in which the store answers returns exactly the
\* owner's tasks with a due date before the time of the call, a status other
\* than completed and isArchived false, each once, by due date ascending; and
\* an UpdateStatus(id, completed) on a listed task sets its completedAt and
\* takes it out of the list of every later GetOverdueTodos call.
C12_OverdueList ==
    [][/\ (Called("GetOverdueTodos") /\ ret'.fail = "none") =>
            LET t == ret'.tasks
            IN  /\ ret'.err = "none"
                /\ Elems(t) = OverdueOf(store, ret'.owner, clock)
                /\ Len(t) = Cardinality(Elems(t))
                /\ \A j, k \in DOMAIN t : j < k => t[j].due_date <= t[k].due_date
       /\ (/\ Called("UpdateStatus") /\ ret'.err = "none"
           /\ ret'.status = StatusCompleted
           /\ ret'.id \in DOMAIN store
           /\ store[ret'.id] \in OverdueOf(store, store[ret'.id].user_id, clock)) =>
            /\ store'[ret'.id].completed_at # NoTime
            /\ \A now \in clock'..MaxClock, u \in Owners :
                 \A r \in GetOverdueTodos(store', u, now, "none") :
                    \A k \in DOMAIN r.tasks : r.tasks[k].id # ret'.id]_vars

\* the list after an UpdateStatus(id, completed) on a task that was overdue:
\* the task is stored, completed, and not listed, while another task still is
C12_Witness ==
    /\ ret.op = "GetOverdueTodos" /\ ret.err = "none" /\ ret.fail = "none"
    /\ Len(ret.tasks) = 1
    /\ \E i \in DOMAIN store :
          /\ store[i].user_id = ret.owner
          /\ store[i].status = StatusCompleted
          /\ store[i].updated_at = clock /\ clock > 1
          /\ store[i].due_date # NoTime /\ store[i].due_date < clock
          /\ ~store[i].is_archived

\* C13: a Create that succeeds stores a record under a fresh id, which it
\* returns, with the given owner, createdAt = updatedAt = the time of the
\* call, isArchived false, the given status or pending when none was given,
\* and the given priority or medium when none was given.
C13_CreatePrepares ==
    [][(Called("Create") /\ ret'.err = "none") =>
        /\ ret'.id # NilID
        /\ ret'.id \notin DOMAIN store
        /\ DOMAIN store' = DOMAIN store \cup {ret'.id}
        /\ LET d == store'[ret'.id]
           IN  /\ d.id = ret'.id
               /\ d.user_id = ret'.caller
               /\ d.created_at = clock /\ d.updated_at = d.created_at
               /\ ~d.is_archived
               /\ d.status = IF ret'.status = "" THEN StatusPending ELSE ret'.status
               /\ d.priority \in GetAllPriorities]_vars

\* the fields of a task other than the id and the timestamps
Content(t) ==
    [user_id |-> t.user_id, title |-> t.title, description |-> t.description,
     status |-> t.status, priority |-> t.priority, due_date |-> t.due_date,
     tags |-> t.tags, is_archived |-> t.is_archived, completed_at |-> t.completed_at]

\* C14 as claimed: GetByID right after a Create that succeeded, on the id it
\* returned, returns a task equal to the inserted one in every field other
\* than the id and the timestamps.
C14_RoundTrip ==
    [][(/\ ret.op = "Create" /\ ret.err = "none"
        /\ Called("GetByID") /\ ret'.fail = "none" /\ ret'.id = ret.id) =>
        /\ ret'.err = "none"
        /\ Content(ret'.todo) = Content(ret.todo)]_vars

\* C14 amended: the task returned is equal to the inserted one in every field
\* other than the id and the timestamps, dueDate and completedAt being equal
\* in their milliseconds.
C14_RoundTripMillis ==
    [][(/\ ret.op = "Create" /\ ret.err = "none"
        /\ Called("GetByID") /\ ret'.fail = "none" /\ ret'.id = ret.id) =>
        /\ ret'.err = "none"
        /\ ret'.todo.id = ret.id
        /\ Content(ret'.todo) =
             [Content(ret.todo) EXCEPT !.due_date = Millis(@),
                                       !.completed_at = Millis(@)]]_vars

\* a task with a description, tags, a due date and isArchived set, created
\* after another task, was fetched
C14_Witness ==
    /\ ret.op = "GetByID" /\ ret.err = "none"
    /\ ret.id = 2
    /\ ret.todo.is_archived
    /\ ret.todo.due_date # NoTime
    /\ Len(ret.todo.tags) > 0 /\ Len(ret.todo.description) > 0

\* C15: the updatedAt of a stored task never decreases, whatever the order in
\* which the storage operations of concurrent Update, UpdateStatus and
\* BulkUpdateStatus calls are done.
C15_UpdatedAtMonotonic ==
    [][\A i \in DOMAIN store \cap DOMAIN store' :
            store'[i].updated_at >= store[i].updated_at]_vars

\* the call numbered n is done in this step
Finished(n) == n \in Running /\ calls'[n].res # "running"

\* C20: the storage operation of a Delete, Update or UpdateStatus call on id
\* takes effect and the call succeeds when the record is stored at that
\* point, and otherwise the call returns not-found and changes nothing; no
\* step brings a record back into the store; of the Delete calls on one id
\* at most one succeeds, and one does as soon as one is done.
C20_RaceFree ==
    /\ [][/\ DOMAIN store' \subseteq DOMAIN store
          /\ \A n \in DOMAIN calls : Finished(n) =>
                LET c == calls[n]
                    res == calls'[n].res
                IN  CASE c.op = "BulkUpdateStatus" ->
                            res = "none" /\ DOMAIN store' = DOMAIN store
                      [] c.id \notin DOMAIN store ->
                            res = "not_found" /\ store' = store
                      [] c.op = "Delete" ->
                            res = "none" /\ DOMAIN store' = DOMAIN store \ {c.id}
                      [] c.op = "Update" ->
                            /\ res = "none" /\ DOMAIN store' = DOMAIN store
                            /\ store'[c.id].title = c.todo.title
                      [] OTHER ->
                            /\ res = "none" /\ DOMAIN store' = DOMAIN store
                            /\ store'[c.id].status = c.status]_vars
    /\ [](\A id \in IdInputs :
            LET deletes == {n \in DOMAIN calls : calls[n].op = "Delete" /\ calls[n].id = id}
                ok == {n \in deletes : calls[n].res = "none"}
            IN  /\ Cardinality(ok) <= 1
                /\ (deletes \ Running # {}) => Cardinality(ok) = 1)

\* two Delete calls on one id that ran at the same time are done: one
\* succeeded, the other returned not-found
C20_Witness ==
    \E n, m \in DOMAIN calls :
        /\ calls[n].op = "Delete" /\ calls[m].op = "Delete"
        /\ calls[n].id = calls[m].id
        /\ n \in calls[m].during
        /\ calls[n].res = "not_found" /\ calls[m].res = "none"

\* C16: no call changes the id or the owner of a stored task: a record that
\* stays in the store keeps both, whatever the task given to Update carries.
C16_IdAndOwnerKept ==
    [][\A i \in DOMAIN store \cap DOMAIN store' :
            /\ store'[i].id = store[i].id
            /\ store'[i].user_id = store[i].user_id]_vars

\* an Update that changed a record whose owner is not the one in the task given
C16_Witness ==
    /\ ret.op = "Update" /\ ret.err = "none"
    /\ ret.id \in DOMAIN store
    /\ store[ret.id].title = ret.todo.title
    /\ store[ret.id].updated_at = ret.todo.updated_at
    /\ store[ret.id].user_id # ret.todo.user_id

\* C17: a GetByUserID call in which a storage access fails (the count, the
\* find, or the reading of the cursor) returns an error and no tasks.
C17_NoPartialResult ==
    (ret.op = "GetByUserID" /\ ret.fail \in {"count", "find", "next"})
        => ret.err # "none" /\ ret.tasks = << >>

\* C18: every stored task has a status among pending, in_progress, completed
\* and cancelled and a priority among low, medium, high and urgent, after any
\* sequence of Create, Update, UpdateStatus and BulkUpdateStatus calls.
C18_ValidEnums ==
    \A i \in DOMAIN store :
        store[i].status \in GetAllStatuses /\ IsValid(store[i].priority)

\* C19: every call returns, with a timeout error when the store does not
\* answer, whatever context the caller passed.
C19_EveryCallReturns ==
    \A n \in 1..MaxCalls : (n \in Running) ~> (n \notin Running)

\* a task value has CompletedAt set iff its status is completed
Coupled(t) == (t.completed_at # NoTime) <=> (t.status = StatusCompleted)

\* C21: when every task value passed to Create and Update has completedAt
\* set iff its status is completed, every stored task has completedAt set
\* iff its status is completed, under any interleaving of concurrent Create,
\* Update, UpdateStatus, BulkUpdateStatus, Delete and BulkDelete calls.
C21_CoupledUnderInterleaving ==
    (\A n \in DOMAIN calls :
        calls[n].op \in {"Create", "Update"} => Coupled(calls[n].todo))
    => \A i \in DOMAIN store : Coupled(store[i])

\* two calls that overlapped have written task 1, one of them an Update with
\* a task marked pending, and task 1 was completed by the other
C21_Witness ==
    /\ Running = {}
    /\ \E n, m \in DOMAIN calls :
        /\ n \in calls[m].during
        /\ {calls[n].op, calls[m].op} = {"Update", "UpdateStatus"}
        /\ calls[n].res = "none" /\ calls[m].res = "none"
        /\ \E k \in {n, m} : /\ calls[k].op = "Update"
                              /\ calls[k].todo.status = StatusPending
        /\ \E k \in {n, m} : /\ calls[k].op = "UpdateStatus"
                              /\ calls[k].status = StatusCompleted
    /\ 1 \in DOMAIN store

\* C22: the result of a GetStatsByUser call satisfies archived <= total and
\* overdue <= total - completed, also when Create, Update or Delete calls of
\* the same owner come between its three round trips.
C22_StatsConsistent ==
    \A n \in DOMAIN calls :
        (calls[n].op = "GetStatsByUser" /\ calls[n].res = "none") =>
            /\ calls[n].stats.Archived <= calls[n].stats.Total
            /\ calls[n].stats.Overdue <= calls[n].stats.Total - calls[n].stats.Completed

\* the owner's archived tasks that are past due at time now and not completed
ArchivedOverdue(coll, owner, now) ==
    {d \in Docs(coll) : d.user_id = owner /\ d.is_archived /\ IsOverdue(d, now)}

Holding == {n \in DOMAIN calls : calls[n].pc \in {"body", "disconnected", "disconnect_failed"}}

\* call n on the handle returns in this step
Returns(n) == n \in DOMAIN calls /\ calls[n].res = "running" /\ calls'[n].res # "running"

\* C24: a closed handle stays closed; on a closed handle GetCollection
\* returns nil, Health and CreateIndexes return an error and Close returns
\* nil, and the client is not disconnected again; a Close whose disconnect
\* fails returns the error and leaves the handle open; only a Close whose
\* disconnect succeeded closes the handle; and at most one call holds the
\* mutex at a time, the only call that changes the handle or returns.
C24_HandleLifecycle ==
    /\ [][/\ db.closed => (db'.closed /\ db'.disconnects = db.disconnects)
          /\ \A n \in 1..MaxCalls :
                Returns(n) =>
                    /\ Holding = {n}
                    /\ db.closed =>
                         calls'[n].res =
                            CASE calls[n].op = "GetCollection" -> "nil"
                              [] calls[n].op = "Close" -> "none"
                              [] OTHER -> "closed"
                    /\ (calls[n].op = "Close" /\ calls'[n].res = "storage") =>
                         (~db.closed /\ ~db'.closed)
                    /\ (db'.closed /\ ~db.closed) =>
                         (calls[n].op = "Close" /\ calls'[n].res = "none")
          /\ (db'.closed # db.closed \/ db'.disconnects # db.disconnects) =>
                (Cardinality(Holding) = 1 /\ Holding \cap Running # {})]_vars
    /\ [](Cardinality(Holding) <= 1 /\ db.disconnects <= 1)

\* a Close has closed the handle, and a call that began after it has returned
\* on the closed handle
C24_Witness ==
    /\ db.closed
    /\ \E n, m \in DOMAIN calls :
        /\ n < m
        /\ calls[n].op = "Close" /\ calls[n].res = "none"
        /\ n \notin calls[m].during
        /\ calls[m].pc = "done"
        /\ calls[m].res \in {"nil", "closed"}

====
